---- MODULE Spec2Model ----
(***************************************************************************)
(* Component loader (src/components.js) and navigation script              *)
(* (src/scripts.js) of a static site, as one state machine over the page's *)
(* document.  A page is a host document that may hold the #navbar and      *)
(* #footer placeholders or navigation markup of its own; either script may *)
(* be executed on it, once, at any point of the page's life.               *)
(*                                                                         *)
(* Event-loop discipline: every action is one task (a script execution, an *)
(* event dispatch with all its listeners, a network completion); the       *)
(* continuation of loadComponents after Promise.all is a microtask and     *)
(* runs before any further task.                                           *)
(*                                                                         *)
(* Spec is loading and the navigation events of a page without widgets.    *)
(* The parts of scripts.js that touch other elements are explored on pages *)
(* of their own: SpecWidgets (FAQ accordion, subscription form),           *)
(* SpecActive (active-link highlighting), SpecAccordion and SpecMobile     *)
(* (mobile dropdowns, their collapse timers, a trigger outside every       *)
(* dropdown); SpecLoad is loading alone, with the microtask's fairness.    *)
(***************************************************************************)
EXTENDS Integers, Sequences, FiniteSets, TLC

\* ---------------------------------------------------------------- bounds
\* number of [data-dropdown] elements of the navigation markup
NumDropdowns == 2
\* largest vertical scroll offset a scroll event reports
MaxScroll == 13
\* number of [data-mobile-dropdown] elements of the navigation markup
NumMobileDropdowns == 2
\* most collapse timers of one mobile dropdown that are pending at a time
MaxTimers == 1
\* number of .faq-item elements of the page
NumFaqItems == 3
\* number of anchors of the page that setActiveNav may meet
NumLinks == 2

\* ------------------------------------------------------- program constants
StickyThreshold == 12
DesktopWidth == 1024

Dropdowns == 1..NumDropdowns
MobileDropdowns == 1..NumMobileDropdowns
FaqItems == 1..NumFaqItems
Links == 1..NumLinks
Slots == {"navbar", "footer"}
ScriptFiles == {"components.js", "scripts.js"}
\* viewport widths a resize event may report: below, at and above the threshold
Widths == {DesktopWidth - 1, DesktopWidth, DesktopWidth + 1}
ScrollOffsets == {0, StickyThreshold, MaxScroll}
Keys == {"Escape", "Enter"}
\* no dropdown (null)
NoDropdown == 0

\* a path or an href attribute is held as the list of its pieces between "/",
\* which is what split('/') makes of it: "/" is <<"", "">>, "/shop/" is
\* <<"", "shop", "">>, "products.html" is <<"products.html">>
Paths ==
  {<<"", "">>, <<"", "index.html">>, <<"", "products.html">>, <<"", "b2b.html">>,
   <<"", "shop", "products.html">>}
Hrefs ==
  {<<"index.html">>, <<"products.html">>, <<"b2b.html">>, <<"", "products.html">>}
\* the classes of an anchor that matter to setActiveNav ("other": neither)
LinkClasses == {"nav-link", "mobile-link", "other"}
solutionPages == {"ai-contract.html", "b2b.html", "Integration.html"}
\* the page has no input[type="email"] in its form (querySelector gives null)
NoInput == "null"
\* values of the email field
EmailValues == {"", "a@b.c"}

\* -------------------------------------------------------------- fragments
\* innerHTML of a placeholder the loader has not written
Untouched == "placeholder"
\* the literal of getNavbarHTML: the markup with #global-nav, #nav-toggle,
\* #mobile-menu and the dropdowns
getNavbarHTML == "navbarHTML"
\* bodies a successful response for footer.html may carry
Bodies == {"footerHTML", ""}

\* variant: only the navbar has a fallback fragment
getFallbackContent_navbarOnly(componentName) ==
  IF componentName = "navbar" THEN "fallbackNavbar" ELSE ""

getFallbackContent(componentName) ==
  IF componentName = "navbar" THEN "fallbackNavbar"
  ELSE IF componentName = "footer" THEN "fallbackFooter"
  ELSE ""

\* second argument of loadComponent in loadComponents ("" : none, inline HTML)
filePath(componentName) == IF componentName = "footer" THEN "footer.html" ELSE ""

\* String(b) and the reading back of an aria-expanded attribute
String(b) == IF b THEN "true" ELSE "false"
IsTrue(attr) == attr = "true"

VARIABLES
  hasPlaceholder,    \* [Slots -> BOOLEAN]: the page has an element with that id
  staticNav,         \* the page's own source holds the navigation markup
  pageScripts,       \* the script files the page includes
  orphanTrigger,     \* the page holds a [data-dropdown-trigger] outside every [data-dropdown]
  faqQuestion,       \* [FaqItems -> BOOLEAN]: the item holds a .faq-question
  hasForm,           \* the page holds a form[autocomplete="off"]
  pathname,          \* window.location.pathname
  linkHref,          \* [Links -> href attribute of the anchor]
  linkClass,         \* [Links -> class of the anchor]
  readyState,        \* document.readyState: "loading" or "interactive"
  dclFired,          \* DOMContentLoaded has been dispatched
  dclListeners,      \* DOMContentLoaded listeners, in registration order
  loaderPc,          \* position of the ComponentLoader: "none", "waitDCL", "awaitAll", "done"
  lc,                \* [Slots -> position of loadComponent(slot)]
  net,               \* [Slots -> what the network did with the slot's request]
  content,           \* [Slots -> innerHTML of the placeholder]
  writes,            \* [Slots -> number of innerHTML assignments]
  loadedComponents,  \* the loader's Set
  initNavCalls,      \* number of calls of initNavigation
  loadErrors,        \* number of calls of handleLoadError
  scriptsRun,        \* scripts.js has been executed
  wired,             \* listener sets on the navigation elements, in registration order
  scrollY,           \* window.scrollY
  pageListeners,     \* the listeners attached by initFAQ and handleFormSubmission
  dom,               \* classes, attributes and values of the document's elements,
                     \* and the collapse timers pending on them
  lastEvent,         \* the event the last task dispatched (NoEvent: the task was none)
  before,            \* dom as that event found it
  fx                 \* what the last task did besides: default prevented, alert, exceptions

vars == <<hasPlaceholder, staticNav, pageScripts, readyState, dclFired, dclListeners, loaderPc, lc,
          net, content, writes, loadedComponents, initNavCalls, loadErrors, scriptsRun,
          wired, scrollY, dom, lastEvent, before, orphanTrigger, faqQuestion, hasForm,
          pathname, linkHref, linkClass, pageListeners, fx>>

pageVars == <<hasPlaceholder, staticNav, pageScripts, orphanTrigger, faqQuestion, hasForm,
              pathname, linkHref, linkClass>>
loaderVars == <<loaderPc, lc, net, content, writes, loadedComponents, initNavCalls, loadErrors>>

\* states of one loadComponent call
Finished == {"skipped", "filled", "fallback"}

\* the navigation markup is in the document: in the page's source, or injected
NavPresent == staticNav \/ content["navbar"] = getNavbarHTML

\* the markup as written in getNavbarHTML: everything collapsed
\* the mobile dropdown's panel carries no hidden class and no inline style;
\* on a page without FAQ items, anchors and form nothing is open, active or typed
ClosedDom ==
  [toggleAria |-> "false", menuHidden |-> TRUE, navOpen |-> FALSE, sticky |-> FALSE,
   ddOpen |-> [d \in Dropdowns |-> FALSE],
   ddAria |-> [d \in Dropdowns |-> "false"],
   mdOpen |-> [m \in MobileDropdowns |-> FALSE],
   mdAria |-> [m \in MobileDropdowns |-> "false"],
   panelHidden |-> [m \in MobileDropdowns |-> FALSE],
   panelMax |-> [m \in MobileDropdowns |-> ""],
   hideTimers |-> [m \in MobileDropdowns |-> 0],
   dataCurrent |-> FALSE,
   faqOpen |-> [i \in FaqItems |-> FALSE],
   active |-> [l \in Links |-> FALSE],
   email |-> NoInput]

NoEvent == [type |-> "none", arg |-> "none"]
NoEffects == [prevented |-> FALSE, alert |-> FALSE, uncaught |-> 0]

\* a task that dispatches no user event
NoDispatch == lastEvent' = NoEvent /\ before' = dom' /\ fx' = NoEffects

\* a task that dispatches event ev, with the effects e
DispatchedWith(ev, e) == lastEvent' = ev /\ before' = dom /\ fx' = e

\* a task that dispatches event ev
Dispatched(ev) == DispatchedWith(ev, NoEffects)

\* a page without FAQ items, anchors, subscription form and stray trigger
PlainPage ==
  /\ orphanTrigger = FALSE
  /\ faqQuestion = [i \in FaqItems |-> FALSE]
  /\ hasForm = FALSE
  /\ pathname = <<"", "index.html">>
  /\ linkHref = [l \in Links |-> <<"index.html">>]
  /\ linkClass = [l \in Links |-> "other"]

\* nothing has run yet
Unloaded ==
  /\ readyState = "loading"
  /\ dclFired = FALSE
  /\ dclListeners = <<>>
  /\ loaderPc = "none"
  /\ lc = [s \in Slots |-> "idle"]
  /\ net = [s \in Slots |-> "none"]
  /\ content = [s \in Slots |-> Untouched]
  /\ writes = [s \in Slots |-> 0]
  /\ loadedComponents = {}
  /\ initNavCalls = 0
  /\ loadErrors = 0
  /\ scriptsRun = FALSE
  /\ wired = <<>>
  /\ pageListeners = {}
  /\ scrollY = 0
  /\ lastEvent = NoEvent
  /\ before = dom
  /\ fx = NoEffects

Init ==
  /\ hasPlaceholder \in [Slots -> BOOLEAN]
  /\ staticNav \in BOOLEAN
  \* element ids are unique: a page with markup of its own has no #navbar slot
  /\ staticNav => ~hasPlaceholder["navbar"]
  /\ pageScripts \in SUBSET ScriptFiles
  /\ PlainPage
  /\ dom = ClosedDom
  /\ Unloaded

\* ------------------------------------------------------------ the loader
\* the loader's part of the state, as one record the steps below transform
LoaderState ==
  [lc |-> lc, content |-> content, writes |-> writes, loaded |-> loadedComponents]

\* loadComponent, the success path: placeholder.innerHTML = html; loadedComponents.add
Inject(st, componentName, html) ==
  [st EXCEPT !.content[componentName] = html,
             !.writes[componentName] = @ + 1,
             !.loaded = @ \cup {componentName},
             !.lc[componentName] = "filled"]

\* variant: the catch block records the component as loaded
Catch_marksLoaded(st, componentName) ==
  [st EXCEPT !.content[componentName] = getFallbackContent(componentName),
             !.writes[componentName] = @ + 1,
             !.loaded = @ \cup {componentName},
             !.lc[componentName] = "fallback"]

\* loadComponent, the catch block: placeholder.innerHTML = getFallbackContent(name)
Catch(st, componentName) ==
  [st EXCEPT !.content[componentName] = getFallbackContent(componentName),
             !.writes[componentName] = @ + 1,
             !.lc[componentName] = "fallback"]

\* variant: no check of the placeholder; a fetch is started for a missing one
loadComponent_noCheck(st, componentName) ==
  IF filePath(componentName) # ""
    THEN [st EXCEPT !.lc[componentName] = "fetching"]
  ELSE Inject(st, componentName, getNavbarHTML)

\* loadComponent up to its first await
loadComponent(st, componentName) ==
  IF ~hasPlaceholder[componentName]
    THEN [st EXCEPT !.lc[componentName] = "skipped"]
  ELSE IF filePath(componentName) # ""
    THEN [st EXCEPT !.lc[componentName] = "fetching"]
  ELSE Inject(st, componentName, getNavbarHTML)

\* variant: the first settled promise resumes loadComponents (Promise.race)
AllSettled_any(l) == \E s \in Slots : l[s] \in Finished

\* Promise.all over the two loadComponent promises has settled
AllSettled(l) == \A s \in Slots : l[s] \in Finished

\* variant: initializeNavbarScripts without its guard
ShouldInitNav_always(loaded) == TRUE

\* the guard of initializeNavbarScripts
ShouldInitNav(loaded) == "navbar" \in loaded

\* the continuation of loadComponents is ready: it runs before any other task
MicrotaskPending == loaderPc = "awaitAll" /\ AllSettled(lc)

SetLoader(st) ==
  /\ lc' = st.lc
  /\ content' = st.content
  /\ writes' = st.writes
  /\ loadedComponents' = st.loaded

\* loadComponents up to `await Promise.all`: both loadComponent calls are started
loadComponents ==
  /\ SetLoader(loadComponent(loadComponent(LoaderState, "navbar"), "footer"))
  /\ net' = [s \in Slots |-> IF lc'[s] = "fetching" THEN "pending" ELSE net[s]]
  /\ loaderPc' = "awaitAll"
  /\ UNCHANGED <<initNavCalls, loadErrors>>

\* new ComponentLoader(): constructor and init
ConstructLoader ==
  /\ ~MicrotaskPending
  /\ "components.js" \in pageScripts
  /\ loaderPc = "none"
  /\ IF readyState = "loading"
       THEN /\ dclListeners' = Append(dclListeners, "loadComponents")
            /\ loaderPc' = "waitDCL"
            /\ UNCHANGED <<lc, net, content, writes, loadedComponents, initNavCalls, loadErrors>>
       ELSE /\ loadComponents
            /\ UNCHANGED dclListeners
  /\ UNCHANGED <<pageVars, pageListeners, readyState, dclFired, scriptsRun, wired, scrollY, dom>>
  /\ NoDispatch

\* the parser reaches the end of the document
ParseEnd ==
  /\ ~MicrotaskPending
  /\ readyState = "loading"
  /\ readyState' = "interactive"
  /\ UNCHANGED <<pageVars, pageListeners, dclFired, dclListeners, loaderVars, scriptsRun, wired, scrollY, dom>>
  /\ NoDispatch

\* ------------------------------------------- scripts.js, on DOMContentLoaded
\* currentPath.split('/').pop() || 'index.html'
fileNameOf(currentPath) ==
  LET last == currentPath[Len(currentPath)]
  IN IF last = "" THEN "index.html" ELSE last

\* the anchors the selector a[href="${fileName}"], a[href="${currentPath}"] matches
Matching(fileName, currentPath) ==
  {l \in Links : linkHref[l] = <<fileName>> \/ linkHref[l] = currentPath}

\* variant: the marks the links carry already are left in place
setActiveNav_keepMarks(s, hasDropdown) ==
  LET fileName == fileNameOf(pathname)
      marked == [l \in Links |->
                   IF l \in Matching(fileName, pathname) /\ linkClass[l] \in {"nav-link", "mobile-link"}
                     THEN TRUE ELSE s.active[l]]
  IN [s EXCEPT !.active = marked,
               !.dataCurrent = IF fileName \in solutionPages /\ hasDropdown THEN TRUE ELSE @]

\* setActiveNav; hasDropdown: document.querySelector('[data-dropdown]') finds one
setActiveNav(s, hasDropdown) ==
  LET fileName == fileNameOf(pathname)
      cleared == [l \in Links |->
                    IF linkClass[l] \in {"nav-link", "mobile-link"} THEN FALSE ELSE s.active[l]]
      marked == [l \in Links |->
                   IF l \in Matching(fileName, pathname) /\ linkClass[l] \in {"nav-link", "mobile-link"}
                     THEN TRUE ELSE cleared[l]]
  IN [s EXCEPT !.active = marked,
               !.dataCurrent = IF fileName \in solutionPages /\ hasDropdown THEN TRUE ELSE @]

\* handleFormSubmission: the listeners it attaches (one per subscription form)
handleFormSubmission == IF hasForm THEN {"form"} ELSE {}

\* initFAQ: the listeners it attaches (one per .faq-question)
initFAQ == IF \E i \in FaqItems : faqQuestion[i] THEN {"faq"} ELSE {}

\* variant: the field keeps its value
submitListener_noClear(s) ==
  IF s.email # NoInput /\ s.email # ""
    THEN [dom |-> s, fx |-> [prevented |-> TRUE, alert |-> TRUE, uncaught |-> 0]]
    ELSE [dom |-> s, fx |-> [prevented |-> TRUE, alert |-> FALSE, uncaught |-> 0]]

\* the submit listener: the document it leaves and what it did besides
submitListener(s) ==
  IF s.email # NoInput /\ s.email # ""
    THEN [dom |-> [s EXCEPT !.email = ""],
          fx |-> [prevented |-> TRUE, alert |-> TRUE, uncaught |-> 0]]
    ELSE [dom |-> s, fx |-> [prevented |-> TRUE, alert |-> FALSE, uncaught |-> 0]]

\* variant: the other items stay as they are
questionClick_toggleOnly(s, item) ==
  [s EXCEPT !.faqOpen[item] = ~s.faqOpen[item]]

\* the click listener of the question of item
questionClick(s, item) ==
  [s EXCEPT !.faqOpen = [other \in FaqItems |->
                           IF other # item THEN FALSE ELSE ~s.faqOpen[item]]]

\* a DOMContentLoaded listener of that name is registered
Registered(name) == \E i \in 1..Len(dclListeners) : dclListeners[i] = name

\* the loader's listener runs before setActiveNav: the navbar is injected by then
LoaderFirst ==
  \E i \in 1..Len(dclListeners) : \E j \in 1..Len(dclListeners) :
    i < j /\ dclListeners[i] = "loadComponents" /\ dclListeners[j] = "setActiveNav"

\* the browser dispatches DOMContentLoaded to the registered listeners
DOMContentLoaded ==
  /\ ~MicrotaskPending
  /\ readyState = "interactive"
  /\ ~dclFired
  /\ dclFired' = TRUE
  /\ IF Registered("loadComponents")
       THEN loadComponents
       ELSE UNCHANGED loaderVars
  /\ dom' = IF Registered("setActiveNav")
              THEN setActiveNav(dom, staticNav \/ (hasPlaceholder["navbar"] /\ LoaderFirst))
              ELSE dom
  /\ pageListeners' =
       pageListeners
         \cup (IF Registered("handleFormSubmission") THEN handleFormSubmission ELSE {})
         \cup (IF Registered("initFAQ") THEN initFAQ ELSE {})
  /\ UNCHANGED <<pageVars, readyState, dclListeners, scriptsRun, wired, scrollY>>
  /\ Dispatched([type |-> "DOMContentLoaded", arg |-> "none"])

\* variant: a non-success status puts the fallback in, and the body is read
\* and injected all the same
FetchResolve_noThrow(componentName, ok) ==
  /\ ~MicrotaskPending
  /\ lc[componentName] = "fetching"
  /\ net' = [net EXCEPT ![componentName] = IF ok THEN "responded" ELSE "notok"]
  /\ IF ok
       THEN SetLoader([LoaderState EXCEPT !.lc[componentName] = "reading"])
       ELSE SetLoader([Catch(LoaderState, componentName) EXCEPT !.lc[componentName] = "reading"])
  /\ UNCHANGED <<pageVars, pageListeners, readyState, dclFired, dclListeners, loaderPc, initNavCalls,
                 loadErrors, scriptsRun, wired, scrollY, dom>>
  /\ NoDispatch

\* fetch(filePath) resolves with a response; response.ok is `ok`
FetchResolve(componentName, ok) ==
  /\ ~MicrotaskPending
  /\ lc[componentName] = "fetching"
  /\ net' = [net EXCEPT ![componentName] = IF ok THEN "responded" ELSE "notok"]
  /\ IF ok
       THEN SetLoader([LoaderState EXCEPT !.lc[componentName] = "reading"])
       ELSE SetLoader(Catch(LoaderState, componentName))
  /\ UNCHANGED <<pageVars, pageListeners, readyState, dclFired, dclListeners, loaderPc, initNavCalls,
                 loadErrors, scriptsRun, wired, scrollY, dom>>
  /\ NoDispatch

\* fetch(filePath) rejects (network error)
FetchReject(componentName) ==
  /\ ~MicrotaskPending
  /\ lc[componentName] = "fetching"
  /\ net' = [net EXCEPT ![componentName] = "rejected"]
  /\ SetLoader(Catch(LoaderState, componentName))
  /\ UNCHANGED <<pageVars, pageListeners, readyState, dclFired, dclListeners, loaderPc, initNavCalls,
                 loadErrors, scriptsRun, wired, scrollY, dom>>
  /\ NoDispatch

\* response.text() resolves with the body
TextResolve(componentName, body) ==
  /\ ~MicrotaskPending
  /\ lc[componentName] = "reading"
  /\ net' = [net EXCEPT ![componentName] = "ok"]
  /\ SetLoader(Inject(LoaderState, componentName, body))
  /\ UNCHANGED <<pageVars, pageListeners, readyState, dclFired, dclListeners, loaderPc, initNavCalls,
                 loadErrors, scriptsRun, wired, scrollY, dom>>
  /\ NoDispatch

\* response.text() rejects (the body cannot be read)
TextReject(componentName) ==
  /\ ~MicrotaskPending
  /\ lc[componentName] = "reading"
  /\ net' = [net EXCEPT ![componentName] = "unreadable"]
  /\ SetLoader(Catch(LoaderState, componentName))
  /\ UNCHANGED <<pageVars, pageListeners, readyState, dclFired, dclListeners, loaderPc, initNavCalls,
                 loadErrors, scriptsRun, wired, scrollY, dom>>
  /\ NoDispatch

\* ----------------------------------------------- navigation, components.js
\* A listener set w = [impl, bound] is what one run of the wiring code
\* registered: impl "L" is initNavigation of the loader, "S" the script of
\* scripts.js; bound says whether the markup was in the document when the code
\* ran, i.e. whether nav, toggle and mobileMenu are elements (not null) and
\* the dropdowns NodeList holds the dropdowns (is not empty).
\* A handler maps the document state s to the state it leaves.

setNavState(s, w, y) ==
  IF ~w.bound THEN s ELSE [s EXCEPT !.sticky = (y > StickyThreshold)]

\* variant: the toggle's aria-expanded is left as it is
closeMobileMenu_noAria(s, w) ==
  IF ~w.bound THEN s
  ELSE [s EXCEPT !.menuHidden = TRUE, !.navOpen = FALSE]

closeMobileMenu(s, w) ==
  IF ~w.bound THEN s
  ELSE [s EXCEPT !.menuHidden = TRUE, !.navOpen = FALSE, !.toggleAria = "false"]

\* variant: resets the triggers but leaves the is-open classes
closeAllDropdowns_ariaOnly(s, w, exception) ==
  LET dropdowns == IF w.bound THEN Dropdowns ELSE {}
  IN [s EXCEPT
        !.ddAria = [d \in Dropdowns |->
                      IF d \in dropdowns /\ d # exception THEN "false" ELSE s.ddAria[d]]]

closeAllDropdowns(s, w, exception) ==
  LET dropdowns == IF w.bound THEN Dropdowns ELSE {}
  IN [s EXCEPT
        !.ddOpen = [d \in Dropdowns |->
                      IF d \in dropdowns /\ d # exception THEN FALSE ELSE s.ddOpen[d]],
        !.ddAria = [d \in Dropdowns |->
                      IF d \in dropdowns /\ d # exception THEN "false" ELSE s.ddAria[d]]]

\* click on #nav-toggle
toggleClick(s, w) ==
  LET expanded == IsTrue(s.toggleAria)
      s1 == [s EXCEPT !.toggleAria = String(~expanded)]
  IN IF expanded
       THEN [s1 EXCEPT !.menuHidden = TRUE, !.navOpen = FALSE]
       ELSE [s1 EXCEPT !.menuHidden = FALSE, !.navOpen = TRUE]

\* click on a link inside #mobile-menu
linkClick(s, w) == closeMobileMenu(s, w)

\* variant: opening does not set the trigger's aria-expanded
triggerClick_noAria(s, w, d) ==
  IF d = NoDropdown THEN s
  ELSE
    LET isOpen == s.ddOpen[d]
        s1 == closeAllDropdowns(s, w, IF isOpen THEN NoDropdown ELSE d)
    IN IF ~isOpen
         THEN [s1 EXCEPT !.ddOpen[d] = TRUE]
         ELSE [s1 EXCEPT !.ddOpen[d] = FALSE, !.ddAria[d] = "false"]

\* click on a trigger; d is trigger.closest('[data-dropdown]'), and
\* `if (!dropdown) return` ends the handler when there is none
triggerClick(s, w, d) ==
  IF d = NoDropdown THEN s
  ELSE
    LET isOpen == s.ddOpen[d]
        s1 == closeAllDropdowns(s, w, IF isOpen THEN NoDropdown ELSE d)
    IN IF ~isOpen
         THEN [s1 EXCEPT !.ddOpen[d] = TRUE, !.ddAria[d] = "true"]
         ELSE [s1 EXCEPT !.ddOpen[d] = FALSE, !.ddAria[d] = "false"]

\* click on the toggle of mobile dropdown m; closing starts the timer that
\* hides the panel
mobileToggleClick(s, w, m) ==
  LET expanded == IsTrue(s.mdAria[m])
      s1 == [s EXCEPT !.mdAria[m] = String(~expanded)]
  IN IF expanded
       THEN [s1 EXCEPT !.mdOpen[m] = FALSE, !.panelMax[m] = "0", !.hideTimers[m] = @ + 1]
       ELSE [s1 EXCEPT !.mdOpen[m] = TRUE, !.panelHidden[m] = FALSE,
                       !.panelMax[m] = "scrollHeight"]

\* the timer's callback: panel.classList.add('hidden')
hidePanel(s, m) == [s EXCEPT !.panelHidden[m] = TRUE, !.hideTimers[m] = @ - 1]

\* what a click target is: the enclosing [data-dropdown], and whether it lies
\* inside #global-nav or #nav-toggle (the structure of getNavbarHTML)
closestDropdown(tgt) == IF tgt.kind \in {"trigger", "dropdownItem"} THEN tgt.d ELSE NoDropdown
inGlobalNav(tgt) == tgt.kind \notin {"outside", "orphanTrigger"}
inNavToggle(tgt) == tgt.kind = "toggle"

\* click listener on document
documentClick(s, w, tgt) ==
  LET s1 == IF closestDropdown(tgt) = NoDropdown
              THEN closeAllDropdowns(s, w, NoDropdown) ELSE s
  IN IF ~inGlobalNav(tgt) /\ ~inNavToggle(tgt) THEN closeMobileMenu(s1, w) ELSE s1

\* variant: Escape closes the dropdowns only
documentKeydown_dropdownsOnly(s, w, key) ==
  IF key = "Escape" THEN closeAllDropdowns(s, w, NoDropdown) ELSE s

\* keydown listener on document
documentKeydown(s, w, key) ==
  IF key = "Escape" THEN closeMobileMenu(closeAllDropdowns(s, w, NoDropdown), w) ELSE s

\* variant: the threshold itself still counts as a mobile width
windowResize_above(s, w, innerWidth) ==
  IF innerWidth > DesktopWidth THEN closeMobileMenu(s, w) ELSE s

\* resize listener on window
windowResize(s, w, innerWidth) ==
  IF innerWidth >= DesktopWidth THEN closeMobileMenu(s, w) ELSE s

\* -------------------------------------------------- navigation, scripts.js
setNavState_scripts(s, w, y) ==
  IF ~w.bound THEN s ELSE [s EXCEPT !.sticky = (y > StickyThreshold)]

closeMobileMenu_scripts(s, w) ==
  IF ~w.bound THEN s
  ELSE [s EXCEPT !.menuHidden = TRUE, !.navOpen = FALSE, !.toggleAria = "false"]

closeAllDropdowns_scripts(s, w, exception) ==
  LET dropdowns == IF w.bound THEN Dropdowns ELSE {}
  IN [s EXCEPT
        !.ddOpen = [d \in Dropdowns |->
                      IF d \in dropdowns /\ d # exception THEN FALSE ELSE s.ddOpen[d]],
        !.ddAria = [d \in Dropdowns |->
                      IF d \in dropdowns /\ d # exception THEN "false" ELSE s.ddAria[d]]]

\* classList.toggle('hidden'); classList.toggle('nav-open', !expanded)
toggleClick_scripts(s, w) ==
  LET expanded == IsTrue(s.toggleAria)
  IN [s EXCEPT !.toggleAria = String(~expanded),
               !.menuHidden = ~s.menuHidden,
               !.navOpen = ~expanded]

linkClick_scripts(s, w) == closeMobileMenu_scripts(s, w)

\* `parent.classList` with parent null: the handler ends in a TypeError
triggerThrows_scripts(d) == d = NoDropdown

\* parent.classList.toggle('is-open', !isOpen); aria-expanded = String(!isOpen);
\* a handler that throws has changed nothing by then
triggerClick_scripts(s, w, d) ==
  IF triggerThrows_scripts(d) THEN s
  ELSE
    LET isOpen == s.ddOpen[d]
        s1 == closeAllDropdowns_scripts(s, w, IF isOpen THEN NoDropdown ELSE d)
    IN [s1 EXCEPT !.ddOpen[d] = ~isOpen, !.ddAria[d] = String(~isOpen)]

\* variant: the toggle's aria-expanded is left as it is
mobileToggleClick_scripts_noAria(s, w, m) ==
  LET isOpen == ~s.mdOpen[m]
  IN [s EXCEPT !.mdOpen[m] = isOpen]

\* wrapper.classList.toggle('is-open'); aria-expanded = String(isOpen)
mobileToggleClick_scripts(s, w, m) ==
  LET isOpen == ~s.mdOpen[m]
  IN [s EXCEPT !.mdOpen[m] = isOpen, !.mdAria[m] = String(isOpen)]

documentClick_scripts(s, w, tgt) ==
  IF closestDropdown(tgt) = NoDropdown THEN closeAllDropdowns_scripts(s, w, NoDropdown) ELSE s

documentKeydown_scripts(s, w, key) ==
  IF key = "Escape"
    THEN closeMobileMenu_scripts(closeAllDropdowns_scripts(s, w, NoDropdown), w)
    ELSE s

\* registered only inside `if (toggle && mobileMenu)`
windowResize_scripts(s, w, innerWidth) ==
  IF ~w.bound THEN s
  ELSE IF innerWidth >= DesktopWidth THEN closeMobileMenu_scripts(s, w) ELSE s

\* ----------------------------------------------------------- event dispatch
\* the listener of set w for event ev, applied to s; listeners on the toggle,
\* the links, the triggers and the mobile dropdowns of the navigation markup
\* exist only in a bound set; a trigger outside the markup is in the document
\* from the start and in every set
Handle(ev, w, s) ==
  CASE ev.type = "toggle" ->
         IF ~w.bound THEN s
         ELSE IF w.impl = "L" THEN toggleClick(s, w) ELSE toggleClick_scripts(s, w)
    [] ev.type = "link" ->
         IF ~w.bound THEN s
         ELSE IF w.impl = "L" THEN linkClick(s, w) ELSE linkClick_scripts(s, w)
    [] ev.type = "trigger" ->
         IF ev.tgt.kind = "trigger" /\ ~w.bound THEN s
         ELSE IF w.impl = "L" THEN triggerClick(s, w, closestDropdown(ev.tgt))
              ELSE triggerClick_scripts(s, w, closestDropdown(ev.tgt))
    [] ev.type = "mobileToggle" ->
         IF ~w.bound THEN s
         ELSE IF w.impl = "L" THEN mobileToggleClick(s, w, ev.tgt.d)
              ELSE mobileToggleClick_scripts(s, w, ev.tgt.d)
    [] ev.type = "docclick" ->
         IF w.impl = "L" THEN documentClick(s, w, ev.tgt)
         ELSE documentClick_scripts(s, w, ev.tgt)
    [] ev.type = "keydown" ->
         IF w.impl = "L" THEN documentKeydown(s, w, ev.key)
         ELSE documentKeydown_scripts(s, w, ev.key)
    [] ev.type = "resize" ->
         IF w.impl = "L" THEN windowResize(s, w, ev.innerWidth)
         ELSE windowResize_scripts(s, w, ev.innerWidth)
    [] ev.type = "scroll" ->
         IF w.impl = "L" THEN setNavState(s, w, ev.y)
         ELSE setNavState_scripts(s, w, ev.y)

\* the listeners run in registration order
RECURSIVE Dispatch(_, _, _)
Dispatch(ev, ws, s) ==
  IF ws = <<>> THEN s ELSE Dispatch(ev, Tail(ws), Handle(ev, Head(ws), s))

\* the listener type on the target element for a click on tgt
TargetEvent(tgt) ==
  CASE tgt.kind = "toggle" -> "toggle"
    [] tgt.kind = "mobileLink" -> "link"
    [] tgt.kind = "trigger" -> "trigger"
    [] tgt.kind = "orphanTrigger" -> "trigger"
    [] tgt.kind = "mobileToggle" -> "mobileToggle"
    [] OTHER -> "none"

\* a click: the target's listeners, then (bubbling) the document's
DispatchClick(tgt, ws, s) ==
  LET s1 == IF TargetEvent(tgt) = "none" THEN s
            ELSE Dispatch([type |-> TargetEvent(tgt), tgt |-> tgt], ws, s)
  IN Dispatch([type |-> "docclick", tgt |-> tgt], ws, s1)

NavTargets ==
  {[kind |-> k, d |-> NoDropdown] : k \in {"toggle", "mobileLink", "navOther"}}
    \cup {[kind |-> k, d |-> d] : k \in {"trigger", "dropdownItem"}, d \in Dropdowns}
OutsideTarget == [kind |-> "outside", d |-> NoDropdown]
Targets == NavTargets \cup {OutsideTarget}
\* the toggles of the mobile dropdowns (d: which one) and the stray trigger
MobileToggles == {[kind |-> "mobileToggle", d |-> m] : m \in MobileDropdowns}
OrphanTarget == [kind |-> "orphanTrigger", d |-> NoDropdown]

\* the exceptions the listeners of a click on tgt end in
RECURSIVE Uncaught(_, _)
Uncaught(tgt, ws) ==
  IF ws = <<>> THEN 0
  ELSE (IF TargetEvent(tgt) = "trigger" /\ Head(ws).impl = "S"
           /\ (tgt.kind = "orphanTrigger" \/ Head(ws).bound)
           /\ triggerThrows_scripts(closestDropdown(tgt))
          THEN 1 ELSE 0) + Uncaught(tgt, Tail(ws))

\* ------------------------------------------------------------ wiring
\* initNavigation: the initial setNavState and the registration of the listeners
initNavigation ==
  LET w == [impl |-> "L", bound |-> NavPresent]
  IN /\ wired' = Append(wired, w)
     /\ dom' = setNavState(dom, w, scrollY)
     /\ initNavCalls' = initNavCalls + 1

\* variant: the continuation ends without initializeNavbarScripts
AfterAll_noWiring ==
  /\ loaderPc = "awaitAll"
  /\ AllSettled(lc)
  /\ loaderPc' = "done"
  /\ UNCHANGED <<wired, dom, initNavCalls, loadErrors>>
  /\ UNCHANGED <<pageVars, pageListeners, readyState, dclFired, dclListeners, lc, net, content, writes,
                 loadedComponents, scriptsRun, scrollY>>
  /\ NoDispatch

\* the continuation of loadComponents after `await Promise.all`:
\* initializeNavbarScripts; a rejection goes to the catch block
AfterAll ==
  /\ loaderPc = "awaitAll"
  /\ AllSettled(lc)
  /\ loaderPc' = "done"
  /\ IF \E s \in Slots : lc[s] = "rejected"
       THEN /\ loadErrors' = loadErrors + 1
            /\ UNCHANGED <<wired, dom, initNavCalls>>
       ELSE /\ IF ShouldInitNav(loadedComponents)
                 THEN initNavigation
                 ELSE UNCHANGED <<wired, dom, initNavCalls>>
            /\ UNCHANGED loadErrors
  /\ UNCHANGED <<pageVars, pageListeners, readyState, dclFired, dclListeners, lc, net, content, writes,
                 loadedComponents, scriptsRun, scrollY>>
  /\ NoDispatch

\* scripts.js is executed: the navigation part runs, the rest waits for
\* DOMContentLoaded
RunScripts ==
  /\ ~MicrotaskPending
  /\ "scripts.js" \in pageScripts
  /\ ~scriptsRun
  /\ scriptsRun' = TRUE
  /\ LET w == [impl |-> "S", bound |-> NavPresent]
     IN /\ wired' = Append(wired, w)
        /\ dom' = setNavState_scripts(dom, w, scrollY)
  /\ dclListeners' = dclListeners \o <<"setActiveNav", "handleFormSubmission", "initFAQ">>
  /\ UNCHANGED <<pageVars, pageListeners, readyState, dclFired, loaderVars, scrollY>>
  /\ NoDispatch

\* ------------------------------------------------------------ user events
Click(tgt) ==
  /\ ~MicrotaskPending
  /\ tgt \in NavTargets \cup MobileToggles => NavPresent
  /\ tgt = OrphanTarget => orphanTrigger
  /\ dom' = DispatchClick(tgt, wired, dom)
  /\ \A m \in MobileDropdowns : dom'.hideTimers[m] <= MaxTimers
  /\ DispatchedWith([type |-> "click", arg |-> tgt],
                    [NoEffects EXCEPT !.uncaught = Uncaught(tgt, wired)])
  /\ UNCHANGED <<pageVars, pageListeners, readyState, dclFired, dclListeners, loaderVars, scriptsRun,
                 wired, scrollY>>

KeyDown(key) ==
  /\ ~MicrotaskPending
  /\ dom' = Dispatch([type |-> "keydown", key |-> key], wired, dom)
  /\ Dispatched([type |-> "keydown", arg |-> key])
  /\ UNCHANGED <<pageVars, pageListeners, readyState, dclFired, dclListeners, loaderVars, scriptsRun,
                 wired, scrollY>>

Resize(innerWidth) ==
  /\ ~MicrotaskPending
  /\ dom' = Dispatch([type |-> "resize", innerWidth |-> innerWidth], wired, dom)
  /\ Dispatched([type |-> "resize", arg |-> innerWidth])
  /\ UNCHANGED <<pageVars, pageListeners, readyState, dclFired, dclListeners, loaderVars, scriptsRun,
                 wired, scrollY>>

\* a collapse timer of mobile dropdown m fires
TimerFire(m) ==
  /\ ~MicrotaskPending
  /\ dom.hideTimers[m] > 0
  /\ dom' = hidePanel(dom, m)
  /\ UNCHANGED <<pageVars, pageListeners, readyState, dclFired, dclListeners, loaderVars,
                 scriptsRun, wired, scrollY>>
  /\ NoDispatch

\* a click on the question of FAQ item
QuestionClick(item) ==
  /\ ~MicrotaskPending
  /\ faqQuestion[item]
  /\ dom' = IF "faq" \in pageListeners THEN questionClick(dom, item) ELSE dom
  /\ Dispatched([type |-> "question", arg |-> item])
  /\ UNCHANGED <<pageVars, pageListeners, readyState, dclFired, dclListeners, loaderVars,
                 scriptsRun, wired, scrollY>>

\* the user types value into the email field
TypeEmail(value) ==
  /\ ~MicrotaskPending
  /\ hasForm
  /\ dom.email # NoInput
  /\ dom' = [dom EXCEPT !.email = value]
  /\ Dispatched([type |-> "input", arg |-> value])
  /\ UNCHANGED <<pageVars, pageListeners, readyState, dclFired, dclListeners, loaderVars,
                 scriptsRun, wired, scrollY>>

\* the subscription form is submitted; without a listener the browser's
\* default submission goes ahead
Submit ==
  /\ ~MicrotaskPending
  /\ hasForm
  /\ LET r == IF "form" \in pageListeners THEN submitListener(dom)
              ELSE [dom |-> dom, fx |-> NoEffects]
     IN /\ dom' = r.dom
        /\ DispatchedWith([type |-> "submit", arg |-> "form"], r.fx)
  /\ UNCHANGED <<pageVars, pageListeners, readyState, dclFired, dclListeners, loaderVars,
                 scriptsRun, wired, scrollY>>

Scroll(y) ==
  /\ ~MicrotaskPending
  /\ scrollY' = y
  /\ dom' = Dispatch([type |-> "scroll", y |-> y], wired, dom)
  /\ Dispatched([type |-> "scroll", arg |-> y])
  /\ UNCHANGED <<pageVars, pageListeners, readyState, dclFired, dclListeners, loaderVars, scriptsRun, wired>>

\* the steps of page load: parsing, script execution, the network, the loader
Load ==
  \/ ConstructLoader
  \/ ParseEnd
  \/ DOMContentLoaded
  \/ \E ok \in BOOLEAN : FetchResolve("footer", ok)
  \/ FetchReject("footer")
  \/ \E body \in Bodies : TextResolve("footer", body)
  \/ TextReject("footer")
  \/ AfterAll
  \/ RunScripts

\* the events the user and the window raise
UserEvent ==
  \/ \E tgt \in Targets : Click(tgt)
  \/ \E key \in Keys : KeyDown(key)
  \/ \E innerWidth \in Widths : Resize(innerWidth)
  \/ \E y \in ScrollOffsets : Scroll(y)

Next == Load \/ UserEvent

Spec == Init /\ [][Next]_vars

\* every script the page includes has run to its end: no listener set is
\* registered from here on
Settled ==
  /\ "components.js" \in pageScripts => loaderPc = "done"
  /\ "scripts.js" \in pageScripts => scriptsRun

\* the behaviours in which the user acts on a page that has finished loading
NextAfterLoad == Load \/ (Settled /\ UserEvent)

SpecAfterLoad == Init /\ [][NextAfterLoad]_vars

\* ------------------------------------------------- the scripts.js widgets
\* a page with FAQ items, at most one of them open, and a subscription form
InitWidgets ==
  /\ hasPlaceholder = [s \in Slots |-> FALSE]
  /\ staticNav = FALSE
  /\ pageScripts = {"scripts.js"}
  /\ orphanTrigger = FALSE
  /\ faqQuestion \in [FaqItems -> BOOLEAN]
  /\ hasForm = TRUE
  /\ pathname = <<"", "index.html">>
  /\ linkHref = [l \in Links |-> <<"index.html">>]
  /\ linkClass = [l \in Links |-> "other"]
  /\ \E open \in SUBSET FaqItems : \E value \in EmailValues \cup {NoInput} :
       /\ Cardinality(open) <= 1
       /\ dom = [ClosedDom EXCEPT !.faqOpen = [i \in FaqItems |-> i \in open],
                                  !.email = value]
  /\ Unloaded

NextWidgets ==
  \/ ParseEnd
  \/ RunScripts
  \/ DOMContentLoaded
  \/ \E item \in FaqItems : QuestionClick(item)
  \/ \E value \in EmailValues : TypeEmail(value)
  \/ Submit

SpecWidgets == InitWidgets /\ [][NextWidgets]_vars

\* ------------------------------------------------- active-link highlighting
\* a page with anchors of any class and href, some marked is-active in its
\* source, shown under any path
InitActive ==
  /\ hasPlaceholder = [s \in Slots |-> FALSE]
  /\ staticNav \in BOOLEAN
  /\ pageScripts = {"scripts.js"}
  /\ orphanTrigger = FALSE
  /\ faqQuestion = [i \in FaqItems |-> FALSE]
  /\ hasForm = FALSE
  /\ pathname \in Paths
  /\ linkHref \in [Links -> Hrefs]
  /\ linkClass \in [Links -> LinkClasses]
  /\ \E marks \in [Links -> BOOLEAN] : dom = [ClosedDom EXCEPT !.active = marks]
  /\ Unloaded

NextActive ==
  \/ ParseEnd
  \/ RunScripts
  \/ DOMContentLoaded

SpecActive == InitActive /\ [][NextActive]_vars

\* ---------------------------------------------- the accordion and the triggers
\* a page without #footer that may hold a trigger outside every [data-dropdown]
InitAccordion ==
  /\ hasPlaceholder \in [Slots -> BOOLEAN]
  /\ ~hasPlaceholder["footer"]
  /\ staticNav \in BOOLEAN
  /\ staticNav => ~hasPlaceholder["navbar"]
  /\ pageScripts \in SUBSET ScriptFiles
  /\ orphanTrigger \in BOOLEAN
  /\ faqQuestion = [i \in FaqItems |-> FALSE]
  /\ hasForm = FALSE
  /\ pathname = <<"", "index.html">>
  /\ linkHref = [l \in Links |-> <<"index.html">>]
  /\ linkClass = [l \in Links |-> "other"]
  /\ dom = ClosedDom
  /\ Unloaded

AccordionTargets ==
  MobileToggles
    \cup {[kind |-> "trigger", d |-> d] : d \in Dropdowns}
    \cup {[kind |-> "toggle", d |-> NoDropdown], OrphanTarget, OutsideTarget}

\* the user acts on a page that has finished loading
NextAccordion ==
  \/ ConstructLoader
  \/ ParseEnd
  \/ DOMContentLoaded
  \/ AfterAll
  \/ RunScripts
  \/ Settled /\ dclFired /\ \E tgt \in AccordionTargets : Click(tgt)
  \/ \E m \in MobileDropdowns : TimerFire(m)

SpecAccordion == InitAccordion /\ [][NextAccordion]_vars

\* -------------------------------------------------- the mobile dropdowns
\* a page without #footer and stray trigger
InitMobile == InitAccordion /\ ~orphanTrigger

\* what the user clicks in the open navigation: the toggles of the mobile
\* dropdowns, the triggers of the desktop dropdowns, the menu toggle
MobileTargets ==
  MobileToggles
    \cup {[kind |-> "trigger", d |-> d] : d \in Dropdowns}
    \cup {[kind |-> "toggle", d |-> NoDropdown]}

NextMobile ==
  \/ ConstructLoader
  \/ ParseEnd
  \/ DOMContentLoaded
  \/ AfterAll
  \/ RunScripts
  \/ Settled /\ dclFired /\ \E tgt \in MobileTargets : Click(tgt)
  \/ \E m \in MobileDropdowns : TimerFire(m)

SpecMobile == InitMobile /\ [][NextMobile]_vars

\* ------------------------------------------------------- loading alone
\* the microtask of a settled Promise.all is run
SpecLoad == Init /\ [][Load]_vars /\ WF_vars(AfterAll)

\* ================================================================ claims
OpenDropdowns == {d \in Dropdowns : dom.ddOpen[d]}
LoaderWired == \E i \in 1..Len(wired) : wired[i].impl = "L"
\* some listener set of implementation impl is attached to the markup
Attached(impl) == \E i \in 1..Len(wired) : wired[i].impl = impl /\ wired[i].bound

\* the listener sets registered on a navigation element
ListenersOn(element) ==
  IF element \in {"toggle", "trigger"}
    THEN SelectSeq(wired, LAMBDA w : w.bound)
    ELSE wired
NavElements == {"toggle", "trigger", "document", "window"}

\* C1: once loading has finished, a slot whose fetch rejected, answered with
\* a non-success status or whose body could not be read holds the fixed,
\* non-empty fallback fragment of its name, and the other slot holds what it
\* holds when that fetch succeeds: the navbar literal in an existing #navbar,
\* recorded as loaded.
C1_FallbackIsolated ==
  loaderPc = "done" =>
    \A s \in Slots :
      net[s] \in {"rejected", "notok", "unreadable"} =>
        /\ content[s] = (IF s = "navbar" THEN "fallbackNavbar" ELSE "fallbackFooter")
        /\ content[s] # ""
        /\ \A o \in Slots \ {s} :
             /\ content[o] = (IF hasPlaceholder[o] THEN "navbarHTML" ELSE "placeholder")
             /\ (o \in loadedComponents) = hasPlaceholder[o]

C1_Witness ==
  /\ loaderPc = "done"
  /\ net["footer"] = "notok"
  /\ content["footer"] = "fallbackFooter"
  /\ content["navbar"] = "navbarHTML"

\* C2: initNavigation is never called, and the loader attaches no listener,
\* before both loadComponent calls have finished, be it by success, by
\* failure or at a missing placeholder.
C2_InitAfterBoth ==
  (initNavCalls > 0 \/ LoaderWired) =>
    \A s \in Slots : lc[s] \in {"skipped", "filled", "fallback"}

C2_Witness ==
  /\ initNavCalls = 1
  /\ lc["navbar"] = "filled"
  /\ lc["footer"] = "fallback"

\* C3: navigation wiring runs at most once per page load: every navigation
\* element (toggle, dropdown trigger, document, window) carries at most one
\* set of navigation listeners.
C3_WiredOnce == \A e \in NavElements : Len(ListenersOn(e)) <= 1

\* C4: the loader calls initNavigation, and attaches listeners, only when the
\* #navbar placeholder exists and was filled with the navbar fragment; with
\* the placeholder missing, or the fallback in it, it never does.
C4_InitOnlyRichNavbar ==
  (initNavCalls > 0 \/ LoaderWired) =>
    /\ hasPlaceholder["navbar"]
    /\ lc["navbar"] = "filled"
    /\ content["navbar"] = "navbarHTML"

C4_Witness ==
  /\ loaderPc = "done"
  /\ ~hasPlaceholder["navbar"]
  /\ staticNav
  /\ initNavCalls = 0
  /\ ~LoaderWired

\* the last task dispatched a click on target tgt
Clicked(tgt) == lastEvent.type = "click" /\ lastEvent.arg = tgt
Pressed(key) == lastEvent.type = "keydown" /\ lastEvent.arg = key
Resized == lastEvent.type = "resize"

C6_AriaTracksOpen ==
  \A d \in Dropdowns : (dom.ddAria[d] = "true") = dom.ddOpen[d]

C6_Witness ==
  /\ Attached("S")
  /\ dom.ddOpen[1]
  /\ dom.ddAria[1] = "true"
  /\ dom.ddAria[2] = "false"

\* C7: in every reachable state, under either implementation, the toggle's
\* aria-expanded is "true" exactly when the mobile menu is not hidden and
\* exactly when the body has the nav-open class.
C7_MenuAgreement ==
  /\ (dom.toggleAria = "true") = ~dom.menuHidden
  /\ (dom.toggleAria = "true") = dom.navOpen

C7_Witness ==
  /\ Attached("L")
  /\ Attached("S")
  /\ dom.toggleAria = "true"
  /\ ~dom.menuHidden
  /\ dom.navOpen

\* C8: after an Escape keydown every desktop dropdown is closed (no is-open,
\* aria-expanded "false") and the mobile menu is closed, whatever was open.
C8_EscapeClosesAll ==
  Pressed("Escape") =>
    /\ \A d \in Dropdowns : ~dom.ddOpen[d] /\ dom.ddAria[d] = "false"
    /\ dom.menuHidden
    /\ dom.toggleAria = "false"
    /\ ~dom.navOpen

\* Escape found a dropdown and the mobile menu open and closed both
C8_Witness ==
  /\ Pressed("Escape")
  /\ before.ddOpen[1]
  /\ ~before.menuHidden
  /\ ~dom.ddOpen[1]
  /\ dom.menuHidden

\* C9: a resize to a width of 1024 or more closes an open mobile menu; a
\* resize with the menu closed, or to a width below 1024, changes no
\* navigation state.
C9_Resize ==
  Resized =>
    /\ (lastEvent.arg >= 1024 /\ ~before.menuHidden) =>
         (dom.menuHidden /\ dom.toggleAria = "false" /\ ~dom.navOpen)
    /\ (lastEvent.arg < 1024 \/ before.menuHidden) => dom = before

\* a resize to exactly 1024 closed the menu opened through scripts.js alone
C9_Witness ==
  /\ wired = <<[impl |-> "S", bound |-> TRUE]>>
  /\ Resized
  /\ lastEvent.arg = 1024
  /\ ~before.menuHidden
  /\ dom.menuHidden

\* C10: under either implementation a click outside #global-nav and
\* #nav-toggle while the mobile menu is open leaves the mobile menu closed,
\* and a click inside the nav region is not taken for one (it leaves the menu
\* as it is).
C10_OutsideClickCloses ==
  /\ (Clicked(OutsideTarget) /\ ~before.menuHidden) => dom.menuHidden
  /\ Clicked([kind |-> "navOther", d |-> NoDropdown]) => dom.menuHidden = before.menuHidden

\* the last task dispatched a click on the question of FAQ item i
QuestionClicked(i) == lastEvent.type = "question" /\ lastEvent.arg = i
OpenFaqItems == {i \in FaqItems : dom.faqOpen[i]}

\* C11: on a page that starts with at most one FAQ item open, at most one
\* FAQ item is open after any sequence of clicks on questions; a click the
\* accordion's listener receives on the question of a closed item leaves
\* exactly that item open, and one on the question of the open item leaves
\* no item open.
C11_FaqSingleOpen ==
  /\ Cardinality(OpenFaqItems) <= 1
  /\ \A i \in FaqItems :
       (QuestionClicked(i) /\ "faq" \in pageListeners) =>
          OpenFaqItems = (IF before.faqOpen[i] THEN {} ELSE {i})

\* the question of item 2 was clicked while item 1 was open
C11_Witness ==
  /\ "faq" \in pageListeners
  /\ QuestionClicked(2)
  /\ before.faqOpen[1]
  /\ OpenFaqItems = {2}

\* the last task was DOMContentLoaded and setActiveNav was among its listeners
ActiveNavRan == lastEvent.type = "DOMContentLoaded" /\ Registered("setActiveNav")
NavLinks == {l \in Links : linkClass[l] \in {"nav-link", "mobile-link"}}
\* the file a link points to: the last piece of its href, index.html if empty
TargetFile(l) ==
  IF linkHref[l][Len(linkHref[l])] = "" THEN "index.html" ELSE linkHref[l][Len(linkHref[l])]
\* the file name of the current path, an empty one taken as index.html
CurrentFile == IF pathname[Len(pathname)] = "" THEN "index.html" ELSE pathname[Len(pathname)]

\* C12 as stated: after setActiveNav has run, the navigation links marked
\* is-active are exactly those whose target is the current file name.
C12_ActiveIffTargetFile ==
  ActiveNavRan => \A l \in NavLinks : dom.active[l] = (TargetFile(l) = CurrentFile)

\* C12: after setActiveNav has run, the navigation links marked is-active
\* are exactly those whose href attribute is the current file name (an empty
\* one taken as index.html) or the full current path, whatever marks the
\* links carried before.
C12_ActiveIffHrefMatches ==
  ActiveNavRan =>
    \A l \in NavLinks :
      dom.active[l] = (linkHref[l] = <<CurrentFile>> \/ linkHref[l] = pathname)

\* under /shop/products.html the link to products.html is marked and the
\* link to /products.html is not
C12_Witness ==
  /\ ActiveNavRan
  /\ pathname = <<"", "shop", "products.html">>
  /\ linkClass[1] = "nav-link" /\ linkHref[1] = <<"products.html">> /\ dom.active[1]
  /\ linkClass[2] = "mobile-link" /\ linkHref[2] = <<"", "products.html">>
  /\ before.active[2] /\ ~dom.active[2]

Submitted == lastEvent.type = "submit"
\* the submit listener of handleFormSubmission is on the form
FormWired == "form" \in pageListeners

\* C13: every submit event the listener of a subscription form receives has
\* its default prevented; with a non-empty email field the confirmation is
\* shown and the field is empty afterwards; with the field empty or absent
\* no confirmation is shown and the field is as it was.
C13_SubmitIntercepted ==
  (Submitted /\ FormWired) =>
    /\ fx.prevented
    /\ (before.email \notin {NoInput, ""}) => (fx.alert /\ dom.email = "")
    /\ (before.email \in {NoInput, ""}) => (~fx.alert /\ dom.email = before.email)

\* a typed address was submitted: confirmation shown, field cleared
C13_Witness ==
  /\ Submitted
  /\ FormWired
  /\ before.email = "a@b.c"
  /\ fx.prevented
  /\ fx.alert
  /\ dom.email = ""

\* C14: loadComponent for a slot whose placeholder is missing returns without
\* raising, starts no fetch, writes nothing and does not add the name to
\* loadedComponents; the sibling slot is loaded as it is otherwise.
C14_MissingPlaceholderSkipped ==
  \A s \in Slots :
    (~hasPlaceholder[s] /\ loaderPc \in {"awaitAll", "done"}) =>
      /\ lc[s] = "skipped"
      /\ net[s] = "none"
      /\ content[s] = Untouched /\ writes[s] = 0
      /\ s \notin loadedComponents
      /\ loadErrors = 0
      /\ \A o \in Slots \ {s} :
           /\ (hasPlaceholder[o] /\ o = "navbar") =>
                (content[o] = "navbarHTML" /\ o \in loadedComponents)
           /\ (hasPlaceholder[o] /\ o = "footer") => net[o] # "none"
           /\ (hasPlaceholder[o] /\ loaderPc = "done") => writes[o] = 1

\* a page without #navbar: the footer was fetched and injected all the same
C14_Witness ==
  /\ ~hasPlaceholder["navbar"]
  /\ loaderPc = "done"
  /\ lc["navbar"] = "skipped"
  /\ content["footer"] = "footerHTML"
  /\ loadedComponents = {"footer"}

\* C15: a slot's placeholder is never written twice and a missing one never;
\* once loading has finished, each slot whose placeholder exists has been
\* written exactly once, with the loaded fragment or with the fallback, for
\* either ready-state at construction and every outcome of the fetch.
C15_WrittenOnce ==
  \A s \in Slots :
    /\ writes[s] <= (IF hasPlaceholder[s] THEN 1 ELSE 0)
    /\ (hasPlaceholder[s] /\ loaderPc = "done") =>
         /\ writes[s] = 1
         /\ lc[s] \in {"filled", "fallback"}
         /\ (lc[s] = "filled") = (s \in loadedComponents)
         /\ lc[s] = "fallback" =>
              content[s] = (IF s = "navbar" THEN "fallbackNavbar" ELSE "fallbackFooter")
         /\ lc[s] = "filled" => content[s] \in {"navbarHTML", "footerHTML", ""}

\* the loader was constructed after parsing had ended and the footer's body
\* could not be read: one write per slot
C15_Witness ==
  /\ loaderPc = "done"
  /\ ~Registered("loadComponents")
  /\ net["footer"] = "unreadable"
  /\ writes = [s \in Slots |-> 1]
  /\ content["footer"] = "fallbackFooter"

\* only the loader's listeners are on the navigation markup
LoaderAlone == wired = <<[impl |-> "L", bound |-> TRUE]>>

\* C16: with the loader's listeners, a mobile dropdown that a click on its
\* toggle has opened (aria-expanded "true") shows its panel (no hidden class)
\* until the toggle is clicked again, whenever the timers of earlier
\* collapses fire.
C16_OpenPanelVisible ==
  \A m \in MobileDropdowns :
    (LoaderAlone /\ dom.mdAria[m] = "true" /\ dom.mdOpen[m]) => ~dom.panelHidden[m]

\* C17: a click on a dropdown trigger that has no enclosing [data-dropdown]
\* is a silent no-op under either implementation: no listener ends in an
\* exception and the state of the dropdowns and of the menu is as before.
C17_OrphanTriggerNoOp ==
  Clicked(OrphanTarget) => (fx.uncaught = 0 /\ dom = before)

\* the last task dispatched a click on the toggle of mobile dropdown m
MobileToggleClicked(m) == Clicked([kind |-> "mobileToggle", d |-> m])
\* the listener sets on the toggles of the mobile dropdowns
OnMobileToggle == SelectSeq(wired, LAMBDA w : w.bound)
\* mobile dropdown o is as the click found it
SameMobile(o) ==
  /\ dom.mdOpen[o] = before.mdOpen[o]
  /\ dom.mdAria[o] = before.mdAria[o]
  /\ dom.panelHidden[o] = before.panelHidden[o]
  /\ dom.panelMax[o] = before.panelMax[o]
  /\ dom.hideTimers[o] = before.hideTimers[o]
SameMenu ==
  /\ dom.toggleAria = before.toggleAria
  /\ dom.menuHidden = before.menuHidden
  /\ dom.navOpen = before.navOpen
Flipped(m) ==
  /\ dom.mdOpen[m] = ~before.mdOpen[m]
  /\ dom.mdAria[m] = (IF before.mdOpen[m] THEN "false" ELSE "true")

C19_LoadedIffFilled ==
  \A s \in Slots :
    (s \in loadedComponents) =
      (/\ hasPlaceholder[s]
       /\ lc[s] = "filled"
       /\ writes[s] = 1
       /\ IF s = "navbar" THEN content[s] = "navbarHTML"
          ELSE net[s] = "ok" /\ content[s] \in {"footerHTML", ""})

\* the navbar was filled, the footer got its fallback: only navbar is recorded
C19_Witness ==
  /\ loaderPc = "done"
  /\ lc["navbar"] = "filled"
  /\ lc["footer"] = "fallback"
  /\ content["footer"] = "fallbackFooter"
  /\ loadedComponents = {"navbar"}

\* the request for footer.html is under way
FooterPending == lc["footer"] \in {"fetching", "reading"}
\* the request for footer.html has come to its end, one way or the other
FooterSettled == net["footer"] \in {"ok", "notok", "rejected", "unreadable"}
\* loadComponents has completed without handleLoadError, and the navbar, if
\* the page has the slot, is wired
Completed ==
  /\ loaderPc = "done"
  /\ loadErrors = 0
  /\ hasPlaceholder["navbar"] => (initNavCalls = 1 /\ LoaderWired)

\* C20 as stated, the part on content: once loadComponents has completed,
\* every existing placeholder holds non-empty content.
C20_EndsNonEmpty ==
  loaderPc = "done" => \A s \in Slots : hasPlaceholder[s] => content[s] # ""

\* C20: once the request for footer.html has settled, loadComponents
\* eventually completes without handleLoadError and with the navbar, if the
\* page has the slot, wired; every existing placeholder then holds what was
\* written to it, which is empty only for a successful response with an
\* empty body; and while the request is under way the loader has attached
\* no navigation listener.
C20_LoadCompletes ==
  /\ [](loaderPc = "done" =>
          /\ loadErrors = 0
          /\ \A s \in Slots :
               hasPlaceholder[s] =>
                 /\ writes[s] = 1
                 /\ content[s] # Untouched
                 /\ content[s] = "" => (s = "footer" /\ net[s] = "ok"))
  /\ [](FooterPending => (~LoaderWired /\ initNavCalls = 0))
  /\ (FooterSettled ~> Completed)

\* the footer's response was successful and empty: loading completed, the
\* navbar is wired, the footer slot is empty
C20_Witness ==
  /\ FooterSettled
  /\ Completed
  /\ LoaderWired
  /\ content["navbar"] = "navbarHTML"
  /\ net["footer"] = "ok"
  /\ content["footer"] = ""
====
